---- MODULE Spec2Model ----
(***************************************************************************)
(* A model of the Go code of tor-static-builder:                           *)
(*   - embed/tor048/process.go : embeddedProcess (Start, Wait,             *)
(*     EmbeddedControlConn and the background goroutine of Start);         *)
(*   - embed/embed.go          : the package globals torInstance and       *)
(*     onionAddress with StartTor, StartTorWithBootstrap, QuickStart,      *)
(*     StopTor, GetTorInstance, GetOnionAddress, SetOnionAddress;          *)
(*   - embed/embed.go          : Config, DefaultConfig, BuildExtraArgs.    *)
(* Go strings are sequences of one-character strings, so that formatting   *)
(* an integer (fmt.Sprintf("%d", n)) is computed digit by digit.           *)
(***************************************************************************)
EXTENDS Integers, Sequences, FiniteSets, TLC

VARIABLES
    \* ---- embed/tor048/process.go ----
    ctx,         \* embeddedProcess.ctx: "nil", "live" or "cancelled"
    mainConf,    \* the object embeddedProcess.mainConf points to
    args,        \* embeddedProcess.args
    doneCh,      \* embeddedProcess.doneCh: 0 (nil) or an index into chans
    chans,       \* the channels made so far: each one its buffer
    charArrays,  \* the char** arrays made by makeCharArray
    tasks,       \* the goroutines spawned by Start
    crashed,     \* the process died of a memory error in native code
    pc,          \* per caller: the statement it is at ("idle": not in a call)
    op,          \* per caller: the method it is in (or was last in)
    ret,         \* per caller: what its last call returned
    sel,         \* per caller: the channel operand its select evaluated
    arr,         \* per caller: the charArray of the Start it is in
    ncalls,      \* the calls begun on the process
    startedOK,   \* history: some Start has returned nil
    \* ---- embed/embed.go, package state ----
    torInstance,   \* atomic.Pointer[tor.Tor]: 0 (nil) or an instance
    onionAddress,  \* atomic.Pointer[string]: 0 (nil) or an index into heap
    heap,          \* the string variables onionAddress can point to
    instances,     \* the tor.Tor values tor.Start has returned
    tpc,           \* per goroutine: the statement it is at
    top,           \* per goroutine: the function it is in (or was last in)
    tret,          \* per goroutine: what its last call returned
    tloc,          \* per goroutine: its local variable t
    tcalls,        \* the calls begun on the package
    hist,          \* history of the package: see EmbedInit
    \* ---- embed/embed.go, Config ----
    config,      \* the Config a caller holds
    extraArgs,   \* what BuildExtraArgs returned for it, once called
    \* ---- examples/basic/main.go ----
    example,     \* the running example program: see ExampleStart
    \* ---- Makefile, build-tor-static.sh ----
    build        \* one run of the script, alone or under make: see BuildRuns

procVars == <<ctx, mainConf, args, doneCh, chans, charArrays, tasks, crashed,
              pc, op, ret, sel, arr, ncalls, startedOK>>
embedVars == <<torInstance, onionAddress, heap, instances, tpc, top, tret,
               tloc, tcalls, hist>>
configVars == <<config, extraArgs>>
exampleVars == <<example>>
buildVars == <<build>>
vars == <<procVars, embedVars, configVars, exampleVars, buildVars>>

----------------------------------------------------------------------------
(* Bounds of the model *)

MaxCalls == 2        \* calls made on one embeddedProcess
MaxArgs == 2         \* longest argument list given to New
MaxCode == 1         \* native return codes range over -MaxCode..MaxCode

\* Every call is made on a goroutine of its own, the c-th call by caller c:
\* two calls overlap in every way the scheduler allows, and one after the
\* other is the case where the first has returned when the second begins
Callers == 1..MaxCalls

\* What tor_run_main returns
Codes == (0 - MaxCode)..MaxCode

\* What tor_main_configuration_set_command_line returns: 0, or -1 on failure
SetCommandLineCodes == {0 - 1, 0}

----------------------------------------------------------------------------
(* Strings *)

Digit(d) == CASE d = 0 -> "0" [] d = 1 -> "1" [] d = 2 -> "2" [] d = 3 -> "3"
              [] d = 4 -> "4" [] d = 5 -> "5" [] d = 6 -> "6" [] d = 7 -> "7"
              [] d = 8 -> "8" [] d = 9 -> "9"

RECURSIVE FormatNat(_)
FormatNat(n) == IF n < 10 THEN <<Digit(n)>>
                ELSE Append(FormatNat(n \div 10), Digit(n % 10))

\* fmt.Sprintf("%d", n) and the %v verb on an int
FormatInt(n) == IF n < 0 THEN <<"-">> \o FormatNat(0 - n) ELSE FormatNat(n)

\* The value of one decimal digit character, -1 for any other character
DigitValue(ch) == IF \E d \in 0..9 : Digit(d) = ch
                  THEN CHOOSE d \in 0..9 : Digit(d) = ch
                  ELSE 0 - 1

RECURSIVE DigitsValue(_)
DigitsValue(s) == IF s = <<>> THEN 0
                  ELSE 10 * DigitsValue(SubSeq(s, 1, Len(s) - 1))
                       + DigitValue(s[Len(s)])

\* s is the decimal numeral of n: an optional sign, digits only, no leading
\* zero, and the value n
IsDecimalOf(s, n) ==
    LET body == IF s # <<>> /\ s[1] = "-" THEN Tail(s) ELSE s
        neg == s # <<>> /\ s[1] = "-"
    IN  /\ body # <<>>
        /\ \A i \in 1..Len(body) : DigitValue(body[i]) >= 0
        /\ Len(body) > 1 => body[1] # "0"
        /\ neg => DigitsValue(body) # 0
        /\ n = IF neg THEN 0 - DigitsValue(body) ELSE DigitsValue(body)

StrTor == <<"t", "o", "r">>
StrSocksPort == <<"-", "-", "S", "o", "c", "k", "s", "P", "o", "r", "t">>
StrControlPort == <<"-", "-", "C", "o", "n", "t", "r", "o", "l", "P", "o", "r", "t">>
StrClientOnly == <<"-", "-", "C", "l", "i", "e", "n", "t", "O", "n", "l", "y">>
StrZero == <<"0">>
StrOne == <<"1">>
StrAuto == <<"a", "u", "t", "o">>
StrDataDir == <<"/", "t", "m", "p", "/", "t", "o", "r", "-", "d", "a", "t", "a">>

----------------------------------------------------------------------------
(* Errors: the values the methods return *)

NilErr == [err |-> FALSE, msg |-> "", arg |-> <<>>]
NoRet == [err |-> FALSE, msg |-> "(call in progress)", arg |-> <<>>]
Errorf(msg) == [err |-> TRUE, msg |-> msg, arg |-> <<>>]
\* fmt.Errorf("<msg>: %v", code)
ErrorfCode(msg, code) == [err |-> TRUE, msg |-> msg, arg |-> FormatInt(code)]

----------------------------------------------------------------------------
(* embed/tor048/process.go *)

\* The argument lists New is given: "--SocksPort", "0", "--SocksPort", ...
\* cut at every length up to MaxArgs
ArgLists == {[i \in 1..n |-> IF i % 2 = 1 THEN StrSocksPort ELSE StrZero] :
                n \in 0..MaxArgs}

\* embeddedCreator.New: the process right after construction
NewProcess(c, a) ==
    /\ ctx = c
    /\ mainConf = [freed |-> FALSE, frees |-> 0, argc |-> 0, argv |-> 0,
                   usedAfterFree |-> FALSE]
    /\ args = a
    /\ doneCh = 0

\* No method has been called yet
ProcFresh ==
    /\ chans = <<>>
    /\ charArrays = <<>>
    /\ tasks = <<>>
    /\ crashed = FALSE
    /\ pc = [c \in Callers |-> "idle"]
    /\ op = [c \in Callers |-> "none"]
    /\ ret = [c \in Callers |-> NoRet]
    /\ sel = [c \in Callers |-> 0]
    /\ arr = [c \in Callers |-> 0]
    /\ ncalls = 0
    /\ startedOK = FALSE

\* New(ctx, "--SocksPort", "0") with a nil or a live context
ProcInit ==
    /\ \E c \in {"nil", "live"} : NewProcess(c, <<StrSocksPort, StrZero>>)
    /\ ProcFresh

\* New(nil, args...) for every argument list
ProcInitArgs ==
    /\ \E a \in ArgLists : NewProcess("nil", a)
    /\ ProcFresh

\* A caller may begin a call
CanCall(c) ==
    /\ ~crashed
    /\ pc[c] = "idle"
    /\ ncalls = c - 1

BeginCall(c, name) ==
    /\ ncalls' = ncalls + 1
    /\ op' = [op EXCEPT ![c] = name]

\* The object not freed
FreeConf_Leak(conf) == conf

\* C.tor_main_configuration_free / C.free on an object: freeing it a second
\* time is a memory error, which the process may or may not survive
FreeConf(conf) == [conf EXCEPT !.freed = TRUE, !.frees = @ + 1]

\* Passing the configuration to the Tor API
UseConf(conf) == [conf EXCEPT !.usedAfterFree = @ \/ conf.freed]

\* The guard left out
AlreadyStarted_Never(ch) == FALSE

\* if e.doneCh != nil
AlreadyStarted(ch) == ch # 0

\* The program name left out
Argv_NoProgramName(a) == a

\* args := append([]string{"tor"}, e.args...)
Argv(a) == <<StrTor>> \o a

\* static char** makeCharArray(int size): calloc, every entry NULL
MakeCharArray(size) == [k \in 1..size |-> <<"NULL">>]

\* static void setArrayString(char **a, char *s, int n): a[n] = s, n from 0
SetArrayString(a, str, n) == [a EXCEPT ![n + 1] = str]

\* for i, a := range args { C.setArrayString(charArray, C.CString(a), C.int(i)) }
\* from Go index i on
RECURSIVE FillCharArray(_, _, _)
FillCharArray(charArray, a, i) ==
    IF i >= Len(a) THEN charArray
    ELSE FillCharArray(SetArrayString(charArray, a[i + 1], i), a, i + 1)

\* The char** Start builds for the Go slice a
CharArrayOf(a) == FillCharArray(MakeCharArray(Len(a)), a, 0)

\* Start, first statement: the double-start guard
Start_guard(c) ==
    /\ CanCall(c)
    /\ BeginCall(c, "Start")
    /\ IF AlreadyStarted(doneCh)
         THEN /\ ret' = [ret EXCEPT ![c] = Errorf("already started")]
              /\ pc' = pc
         ELSE /\ ret' = [ret EXCEPT ![c] = NoRet]
              /\ pc' = [pc EXCEPT ![c] = "Start_conf"]
    /\ UNCHANGED <<ctx, mainConf, args, doneCh, chans, charArrays, tasks,
                   crashed, sel, arr, startedOK>>
    /\ UNCHANGED <<embedVars, configVars, exampleVars, buildVars>>

\* Start: build the char array and set the command line; on a non-zero code
\* free both and return the error
Start_conf(c) ==
    /\ ~crashed
    /\ pc[c] = "Start_conf"
    /\ \E code \in SetCommandLineCodes, fault \in BOOLEAN :
        LET a == Len(charArrays) + 1
            used == [UseConf(mainConf) EXCEPT !.argc = Len(Argv(args)), !.argv = a]
            memoryError == mainConf.freed
        IN  IF fault
            THEN /\ memoryError
                 /\ crashed' = TRUE
                 /\ UNCHANGED <<mainConf, charArrays, pc, ret, arr>>
            ELSE /\ crashed' = FALSE
                 /\ IF code # 0
                    THEN /\ mainConf' = FreeConf(used)
                         /\ charArrays' = Append(charArrays,
                                [argv |-> CharArrayOf(Argv(args)), frees |-> 1])
                         /\ ret' = [ret EXCEPT ![c] = ErrorfCode(
                                "failed to set command line args, code", code)]
                         /\ pc' = [pc EXCEPT ![c] = "idle"]
                         /\ arr' = arr
                    ELSE /\ mainConf' = used
                         /\ charArrays' = Append(charArrays,
                                [argv |-> CharArrayOf(Argv(args)), frees |-> 0])
                         /\ arr' = [arr EXCEPT ![c] = a]
                         /\ pc' = [pc EXCEPT ![c] = "Start_go"]
                         /\ ret' = ret
    /\ UNCHANGED <<ctx, args, doneCh, chans, tasks, op, sel, ncalls, startedOK>>
    /\ UNCHANGED <<embedVars, configVars, exampleVars, buildVars>>

\* Start: e.doneCh = make(chan int, 1); go func() {...}(); return nil
Start_go(c) ==
    /\ ~crashed
    /\ pc[c] = "Start_go"
    /\ chans' = Append(chans, <<>>)
    /\ doneCh' = Len(chans) + 1
    /\ tasks' = Append(tasks, [at |-> "spawned", charArray |-> arr[c], code |-> 0])
    /\ ret' = [ret EXCEPT ![c] = NilErr]
    /\ pc' = [pc EXCEPT ![c] = "idle"]
    /\ startedOK' = TRUE
    /\ UNCHANGED <<ctx, mainConf, args, charArrays, crashed, op, sel, arr, ncalls>>
    /\ UNCHANGED <<embedVars, configVars, exampleVars, buildVars>>

\* The goroutine: C.tor_run_main(e.mainConf) is entered
Task_runMain(t) ==
    /\ ~crashed
    /\ tasks[t].at = "spawned"
    /\ \E fault \in BOOLEAN :
        IF fault
        THEN /\ mainConf.freed
             /\ crashed' = TRUE
             /\ UNCHANGED <<mainConf, tasks>>
        ELSE /\ crashed' = FALSE
             /\ mainConf' = UseConf(mainConf)
             /\ tasks' = [tasks EXCEPT ![t].at = "running"]
    /\ UNCHANGED <<ctx, args, doneCh, chans, charArrays, pc, op, ret, sel, arr,
                   ncalls, startedOK>>
    /\ UNCHANGED <<embedVars, configVars, exampleVars, buildVars>>

\* The goroutine: tor_run_main returns its exit code
Task_mainReturns(t) ==
    /\ ~crashed
    /\ tasks[t].at = "running"
    /\ \E code \in Codes :
        tasks' = [tasks EXCEPT ![t].at = "send", ![t].code = code]
    /\ UNCHANGED <<ctx, mainConf, args, doneCh, chans, charArrays, crashed, pc,
                   op, ret, sel, arr, ncalls, startedOK>>
    /\ UNCHANGED <<embedVars, configVars, exampleVars, buildVars>>

\* make(chan int, 1): a send proceeds when the buffer holds no value
CanSend(buf) == Len(buf) < 1

\* The goroutine: e.doneCh <- code
Task_send(t) ==
    /\ ~crashed
    /\ tasks[t].at = "send"
    /\ CanSend(chans[doneCh])
    /\ chans' = [chans EXCEPT ![doneCh] = Append(@, [code |-> tasks[t].code, from |-> t])]
    /\ tasks' = [tasks EXCEPT ![t].at = "deferred"]
    /\ UNCHANGED <<ctx, mainConf, args, doneCh, charArrays, crashed, pc, op, ret,
                   sel, arr, ncalls, startedOK>>
    /\ UNCHANGED <<embedVars, configVars, exampleVars, buildVars>>

\* The goroutine: the deferred calls, last registered first:
\* tor_main_configuration_free(e.mainConf), then freeCharArray(charArray, n)
Task_deferred(t) ==
    /\ ~crashed
    /\ tasks[t].at = "deferred"
    /\ \E fault \in BOOLEAN :
        IF fault
        THEN /\ mainConf.freed
             /\ crashed' = TRUE
             /\ UNCHANGED <<mainConf, charArrays, tasks>>
        ELSE /\ crashed' = FALSE
             /\ mainConf' = FreeConf(mainConf)
             /\ charArrays' = [charArrays EXCEPT ![tasks[t].charArray].frees = @ + 1]
             /\ tasks' = [tasks EXCEPT ![t].at = "done"]
    /\ UNCHANGED <<ctx, args, doneCh, chans, pc, op, ret, sel, arr, ncalls,
                   startedOK>>
    /\ UNCHANGED <<embedVars, configVars, exampleVars, buildVars>>

\* The guard left out
NotStarted_Never(ch) == FALSE

\* if e.doneCh == nil
NotStarted(ch) == ch = 0

\* Wait, first statement; a started process enters the select, whose channel
\* operand is evaluated once, on entry
Wait_guard(c) ==
    /\ CanCall(c)
    /\ BeginCall(c, "Wait")
    /\ IF NotStarted(doneCh)
         THEN /\ ret' = [ret EXCEPT ![c] = Errorf("not started")]
              /\ pc' = pc
              /\ sel' = sel
         ELSE /\ ret' = [ret EXCEPT ![c] = NoRet]
              /\ pc' = [pc EXCEPT ![c] = "Wait_select"]
              /\ sel' = [sel EXCEPT ![c] = doneCh]
    /\ UNCHANGED <<ctx, mainConf, args, doneCh, chans, charArrays, tasks,
                   crashed, arr, startedOK>>
    /\ UNCHANGED <<embedVars, configVars, exampleVars, buildVars>>

\* A nil ctx taken for one that is done
CtxDone_NilIsDone(x) == x \in {"cancelled", "nil"}

\* ctx.Done() is ready: a nil ctx is context.Background(), never done
CtxDone(x) == x = "cancelled"

\* Wait: case <-ctx.Done(): return ctx.Err()
Wait_ctxDone(c) ==
    /\ ~crashed
    /\ pc[c] = "Wait_select"
    /\ CtxDone(ctx)
    /\ ret' = [ret EXCEPT ![c] = Errorf("context canceled")]
    /\ pc' = [pc EXCEPT ![c] = "idle"]
    /\ UNCHANGED <<ctx, mainConf, args, doneCh, chans, charArrays, tasks,
                   crashed, op, sel, arr, ncalls, startedOK>>
    /\ UNCHANGED <<embedVars, configVars, exampleVars, buildVars>>

\* Only a negative exit code taken for a failure
WaitResult_NegativeOnly(code) ==
    IF code >= 0 THEN NilErr
    ELSE ErrorfCode("command completed with error exit code", code)

\* What Wait returns for the exit code it received
WaitResult(code) ==
    IF code = 0 THEN NilErr
    ELSE ErrorfCode("command completed with error exit code", code)

\* Wait: case code := <-e.doneCh
Wait_recv(c) ==
    /\ ~crashed
    /\ pc[c] = "Wait_select"
    /\ sel[c] # 0
    /\ chans[sel[c]] # <<>>
    /\ chans' = [chans EXCEPT ![sel[c]] = Tail(@)]
    /\ ret' = [ret EXCEPT ![c] = WaitResult(Head(chans[sel[c]]).code)
                                  @@ [from |-> Head(chans[sel[c]]).from]]
    /\ pc' = [pc EXCEPT ![c] = "idle"]
    /\ UNCHANGED <<ctx, mainConf, args, doneCh, charArrays, tasks, crashed, op,
                   sel, arr, ncalls, startedOK>>
    /\ UNCHANGED <<embedVars, configVars, exampleVars, buildVars>>

\* A connection returned together with the error
ControlConnResult_Both(isSocket) ==
    IF isSocket THEN NilErr @@ [conn |-> TRUE]
    ELSE Errorf("unable to create conn from control socket") @@ [conn |-> TRUE]

\* conn, err := net.FileConn(file): a connection and no error, or no
\* connection and the error, which is then wrapped
ControlConnResult(isSocket) ==
    IF isSocket THEN NilErr @@ [conn |-> TRUE]
    ELSE Errorf("unable to create conn from control socket") @@ [conn |-> FALSE]

\* EmbeddedControlConn: the descriptor Tor hands back is a socket or not
EmbeddedControlConn(c) ==
    /\ CanCall(c)
    /\ BeginCall(c, "EmbeddedControlConn")
    /\ \E isSocket \in BOOLEAN, fault \in BOOLEAN :
        IF fault
        THEN /\ mainConf.freed
             /\ crashed' = TRUE
             /\ UNCHANGED <<mainConf, ret>>
        ELSE /\ crashed' = FALSE
             /\ mainConf' = UseConf(mainConf)
             /\ ret' = [ret EXCEPT ![c] = ControlConnResult(isSocket)]
    /\ UNCHANGED <<ctx, args, doneCh, chans, charArrays, tasks, pc, sel, arr,
                   startedOK>>
    /\ UNCHANGED <<embedVars, configVars, exampleVars, buildVars>>

\* The owner of the context given to New cancels it
CancelCtx ==
    /\ ~crashed
    /\ ctx = "live"
    /\ ctx' = "cancelled"
    /\ UNCHANGED <<mainConf, args, doneCh, chans, charArrays, tasks, crashed,
                   pc, op, ret, sel, arr, ncalls, startedOK>>
    /\ UNCHANGED <<embedVars, configVars, exampleVars, buildVars>>

ProcNext ==
    \/ \E c \in Callers : Start_guard(c)
    \/ \E c \in Callers : Start_conf(c)
    \/ \E c \in Callers : Start_go(c)
    \/ \E t \in 1..Len(tasks) : Task_runMain(t)
    \/ \E t \in 1..Len(tasks) : Task_mainReturns(t)
    \/ \E t \in 1..Len(tasks) : Task_send(t)
    \/ \E t \in 1..Len(tasks) : Task_deferred(t)
    \/ \E c \in Callers : Wait_guard(c)
    \/ \E c \in Callers : Wait_ctxDone(c)
    \/ \E c \in Callers : Wait_recv(c)
    \/ \E c \in Callers : EmbeddedControlConn(c)
    \/ CancelCtx

----------------------------------------------------------------------------
(* embed/embed.go: Config, DefaultConfig, BuildExtraArgs *)

MaxSmallPort == 11   \* the ports 1..MaxSmallPort, besides the ones named below

PortValues == {0 - 1, 0} \cup (1..MaxSmallPort) \cup {9050, 9051, 9150, 65535, 70000}

\* type Config struct; BootstrapTimeout is in minutes
Configs == [DataDir : {<<>>}, SocksPort : PortValues, ControlPort : PortValues,
            ClientOnly : BOOLEAN, BootstrapTimeout : {0}]

\* func DefaultConfig() *Config
DefaultConfig == [DataDir |-> StrDataDir, SocksPort |-> 0, ControlPort |-> 0,
                  ClientOnly |-> TRUE, BootstrapTimeout |-> 3]

\* The port not formatted
SocksPortArgs_AlwaysZero(port) == <<StrSocksPort, StrZero>>

\* BuildExtraArgs: the SocksPort pair
SocksPortArgs(port) ==
    IF port = 0 THEN <<StrSocksPort, StrZero>>
    ELSE <<StrSocksPort, FormatInt(port)>>

\* ControlPort 0 passed on as "0", as for SocksPort
ControlPortArgs_ZeroAsZero(port) == <<StrControlPort, FormatInt(port)>>

\* BuildExtraArgs: the ControlPort pair
ControlPortArgs(port) ==
    IF port = 0 THEN <<StrControlPort, StrAuto>>
    ELSE <<StrControlPort, FormatInt(port)>>

\* The pair appended whatever ClientOnly is
ClientOnlyArgs_Always(clientOnly) == <<StrClientOnly, StrOne>>

\* BuildExtraArgs: the ClientOnly pair
ClientOnlyArgs(clientOnly) ==
    IF clientOnly THEN <<StrClientOnly, StrOne>> ELSE <<>>

\* func (c *Config) BuildExtraArgs() []string
BuildExtraArgs(c) ==
    SocksPortArgs(c.SocksPort) \o ControlPortArgs(c.ControlPort)
        \o ClientOnlyArgs(c.ClientOnly)

NotCalled == [called |-> FALSE, value |-> <<>>]

ConfigInit ==
    /\ config \in Configs
    /\ extraArgs = NotCalled

\* config.BuildExtraArgs(): the receiver is read, never written
Config_BuildExtraArgs ==
    /\ ~extraArgs.called
    /\ extraArgs' = [called |-> TRUE, value |-> BuildExtraArgs(config)]
    /\ config' = config
    /\ UNCHANGED <<procVars, embedVars, exampleVars, buildVars>>

\* config := DefaultConfig()
Config_Default ==
    /\ config' = DefaultConfig
    /\ extraArgs' = NotCalled
    /\ UNCHANGED <<procVars, embedVars, exampleVars, buildVars>>

\* config.SocksPort = ...; config.ControlPort = ...
Config_SetPorts ==
    /\ \E s \in PortValues, c \in PortValues :
        config' = [config EXCEPT !.SocksPort = s, !.ControlPort = c]
    /\ extraArgs' = NotCalled
    /\ UNCHANGED <<procVars, embedVars, exampleVars, buildVars>>

ConfigNext ==
    \/ Config_BuildExtraArgs
    \/ Config_Default
    \/ Config_SetPorts

----------------------------------------------------------------------------
(* embed/embed.go: the package state and its functions *)

MaxEmbedCalls == 3   \* calls made on package embed

\* Every call is made on a goroutine of its own, the g-th call by goroutine g
Goroutines == 1..MaxEmbedCalls

\* The addresses SetOnionAddress is given
StrOnionA == <<"a", ".", "o", "n", "i", "o", "n">>
StrOnionB == <<"b", ".", "o", "n", "i", "o", "n">>
Addresses == {<<>>, StrOnionA, StrOnionB}

\* The data directories StartTor and StartTorWithBootstrap are given
StrTempDir == <<"/", "t">>
DataDirs == {StrTempDir}

\* The cause returned as it is, not wrapped
Wrap_CauseOnly(msg, cause) == cause

\* errors.Is-free view of fmt.Errorf("<msg>: %w", cause)
Wrap(msg, cause) == [err |-> TRUE, msg |-> msg, arg |-> <<>>, cause |-> cause.msg]

\* What a call of the package returns: an instance, an error, a string
Result(t, e, v) == [t |-> t, err |-> e, val |-> v]
Pending == Result(0, NoRet, <<>>)

EmbedInit ==
    /\ torInstance = 0
    /\ onionAddress = 0
    /\ heap = <<>>
    /\ instances = <<>>
    /\ tpc = [g \in Goroutines |-> "idle"]
    /\ top = [g \in Goroutines |-> "none"]
    /\ tret = [g \in Goroutines |-> Pending]
    /\ tloc = [g \in Goroutines |-> [t |-> 0, addr |-> 0, seen |-> <<>>, timeout |-> 0]]
    /\ tcalls = 0
    \* started: StartTor has been entered (directly or through a wrapper);
    \* lastSet: the argument of the latest SetOnionAddress, "" before any;
    \* sets: the arguments of all SetOnionAddress calls so far
    /\ hist = [started |-> FALSE, lastSet |-> <<>>, sets |-> {}]

CanCallEmbed(g) ==
    /\ tpc[g] = "idle"
    /\ tcalls = g - 1

BeginEmbed(g, name) ==
    /\ tcalls' = tcalls + 1
    /\ top' = [top EXCEPT ![g] = name]

\* Close not called
CloseInstance_Skipped(insts, i) == insts

\* tor.Tor.Close on instance i
CloseInstance(insts, i) == [insts EXCEPT ![i].closeCalls = @ + 1]

\* The instance not stored
StartTorStored_Nil(t) == 0

\* StartTor: torInstance.Store(t)
StartTorStored(t) == t

\* The closed instance left in place
StopTorStored_Kept(t) == t

\* StopTor: torInstance.Store(nil)
StopTorStored(t) == 0

\* StartTor, entered directly: tor.Start(ctx, startConf) fails or returns a
\* new instance
StartTor_start(g, name, dataDir, extra, timeout) ==
    /\ CanCallEmbed(g)
    /\ BeginEmbed(g, name)
    /\ hist' = [hist EXCEPT !.started = TRUE]
    /\ \E ok \in BOOLEAN :
        IF ok
        THEN /\ instances' = Append(instances,
                    [closeCalls |-> 0, dataDir |-> dataDir, extraArgs |-> extra])
             /\ tloc' = [tloc EXCEPT ![g].t = Len(instances) + 1,
                                     ![g].timeout = timeout]
             /\ tret' = [tret EXCEPT ![g] = Pending]
             /\ tpc' = [tpc EXCEPT ![g] = "StartTor_store"]
        ELSE /\ tret' = [tret EXCEPT ![g] = Result(0,
                    Wrap("failed to start embedded Tor", Errorf("tor.Start")), <<>>)]
             /\ UNCHANGED <<instances, tloc, tpc>>
    /\ UNCHANGED <<torInstance, onionAddress, heap>>
    /\ UNCHANGED <<procVars, configVars, exampleVars, buildVars>>

\* StartTor: torInstance.Store(t); return t, nil.  Inside
\* StartTorWithBootstrap the caller goes on to EnableNetwork
StartTor_store(g) ==
    /\ tpc[g] = "StartTor_store"
    /\ torInstance' = StartTorStored(tloc[g].t)
    /\ IF top[g] = "StartTor"
       THEN /\ tret' = [tret EXCEPT ![g] = Result(tloc[g].t, NilErr, <<>>)]
            /\ tpc' = [tpc EXCEPT ![g] = "idle"]
       ELSE /\ tret' = tret
            /\ tpc' = [tpc EXCEPT ![g] = "Bootstrap_enable"]
    /\ UNCHANGED <<onionAddress, heap, instances, top, tloc, tcalls, hist>>
    /\ UNCHANGED <<procVars, configVars, exampleVars, buildVars>>

\* func StartTor(ctx, dataDir, extraArgs...)
StartTor(g) ==
    \E d \in DataDirs, extra \in {<<>>, BuildExtraArgs(DefaultConfig)} :
        StartTor_start(g, "StartTor", d, extra, 0)

\* func StartTorWithBootstrap(ctx, dataDir, timeout): StartTor(ctx, dataDir)
StartTorWithBootstrap(g) ==
    \E d \in DataDirs, timeout \in {1} :
        StartTor_start(g, "StartTorWithBootstrap", d, <<>>, timeout)

\* func QuickStart(ctx): StartTorWithBootstrap with DefaultConfig's DataDir
\* and BootstrapTimeout
QuickStart(g) ==
    StartTor_start(g, "QuickStart", DefaultConfig.DataDir, <<>>,
                   DefaultConfig.BootstrapTimeout)

\* StartTorWithBootstrap: t.EnableNetwork(bootCtx, true) succeeds, fails, or
\* the timeout of bootCtx elapses
Bootstrap_enable(g) ==
    /\ tpc[g] = "Bootstrap_enable"
    /\ \E outcome \in {"ok", "error", "context deadline exceeded"} :
        IF outcome = "ok"
        THEN /\ tret' = [tret EXCEPT ![g] = Result(tloc[g].t, NilErr, <<>>)]
             /\ tpc' = [tpc EXCEPT ![g] = "idle"]
        ELSE /\ tret' = [tret EXCEPT ![g] = Result(0, Errorf(outcome), <<>>)]
             /\ tpc' = [tpc EXCEPT ![g] = "Bootstrap_close"]
    /\ UNCHANGED <<torInstance, onionAddress, heap, instances, top, tloc,
                   tcalls, hist>>
    /\ UNCHANGED <<procVars, configVars, exampleVars, buildVars>>

\* StartTorWithBootstrap, EnableNetwork failed: t.Close(); return nil, err
Bootstrap_close(g) ==
    /\ tpc[g] = "Bootstrap_close"
    /\ instances' = CloseInstance(instances, tloc[g].t)
    /\ tret' = [tret EXCEPT ![g] =
            Result(0, Wrap("failed to bootstrap Tor", tret[g].err), <<>>)]
    /\ tpc' = [tpc EXCEPT ![g] = "idle"]
    /\ UNCHANGED <<torInstance, onionAddress, heap, top, tloc, tcalls, hist>>
    /\ UNCHANGED <<procVars, configVars, exampleVars, buildVars>>

\* func GetTorInstance() *tor.Tor
GetTorInstance(g) ==
    /\ CanCallEmbed(g)
    /\ BeginEmbed(g, "GetTorInstance")
    /\ tret' = [tret EXCEPT ![g] = Result(torInstance, NilErr, <<>>)]
    /\ UNCHANGED <<torInstance, onionAddress, heap, instances, tpc, tloc, hist>>
    /\ UNCHANGED <<procVars, configVars, exampleVars, buildVars>>

\* StopTor: t := torInstance.Load(); if t == nil { return nil }
StopTor_load(g) ==
    /\ CanCallEmbed(g)
    /\ BeginEmbed(g, "StopTor")
    /\ tloc' = [tloc EXCEPT ![g].t = torInstance]
    /\ IF torInstance = 0
       THEN /\ tret' = [tret EXCEPT ![g] = Result(0, NilErr, <<>>)]
            /\ tpc' = tpc
       ELSE /\ tret' = [tret EXCEPT ![g] = Pending]
            /\ tpc' = [tpc EXCEPT ![g] = "StopTor_close"]
    /\ UNCHANGED <<torInstance, onionAddress, heap, instances, hist>>
    /\ UNCHANGED <<procVars, configVars, exampleVars, buildVars>>

\* StopTor: if err := t.Close(); err != nil { return wrapped }
StopTor_close(g) ==
    /\ tpc[g] = "StopTor_close"
    /\ instances' = CloseInstance(instances, tloc[g].t)
    /\ \E ok \in BOOLEAN :
        IF ok
        THEN /\ tpc' = [tpc EXCEPT ![g] = "StopTor_store"]
             /\ tret' = tret
        ELSE /\ tret' = [tret EXCEPT ![g] = Result(0,
                    Wrap("failed to stop Tor", Errorf("Close")), <<>>)]
             /\ tpc' = [tpc EXCEPT ![g] = "idle"]
    /\ UNCHANGED <<torInstance, onionAddress, heap, top, tloc, tcalls, hist>>
    /\ UNCHANGED <<procVars, configVars, exampleVars, buildVars>>

\* StopTor: torInstance.Store(nil); return nil
StopTor_store(g) ==
    /\ tpc[g] = "StopTor_store"
    /\ torInstance' = StopTorStored(tloc[g].t)
    /\ tret' = [tret EXCEPT ![g] = Result(0, NilErr, <<>>)]
    /\ tpc' = [tpc EXCEPT ![g] = "idle"]
    /\ UNCHANGED <<onionAddress, heap, instances, top, tloc, tcalls, hist>>
    /\ UNCHANGED <<procVars, configVars, exampleVars, buildVars>>

\* func SetOnionAddress(addr string): onionAddress.Store(&addr); the
\* parameter addr is a variable of its own for every call
SetOnionAddress(g) ==
    /\ CanCallEmbed(g)
    /\ BeginEmbed(g, "SetOnionAddress")
    /\ \E addr \in Addresses :
        /\ heap' = Append(heap, addr)
        /\ onionAddress' = Len(heap) + 1
        /\ hist' = [hist EXCEPT !.lastSet = addr, !.sets = @ \cup {addr}]
    /\ tret' = [tret EXCEPT ![g] = Result(0, NilErr, <<>>)]
    /\ UNCHANGED <<torInstance, instances, tpc, tloc>>
    /\ UNCHANGED <<procVars, configVars, exampleVars, buildVars>>

\* One shared string variable, read after the Load
Deref_Latest(h, p) == IF p = 0 THEN <<>> ELSE h[Len(h)]

\* GetOnionAddress: what dereferencing the loaded pointer gives
Deref(h, p) == IF p = 0 THEN <<>> ELSE h[p]

\* GetOnionAddress: addr := onionAddress.Load(); if addr == nil { return "" }
GetOnionAddress_load(g) ==
    /\ CanCallEmbed(g)
    /\ BeginEmbed(g, "GetOnionAddress")
    /\ tloc' = [tloc EXCEPT ![g].addr = onionAddress, ![g].seen = hist.lastSet]
    /\ IF onionAddress = 0
       THEN /\ tret' = [tret EXCEPT ![g] = Result(0, NilErr, <<>>)]
            /\ tpc' = tpc
       ELSE /\ tret' = [tret EXCEPT ![g] = Pending]
            /\ tpc' = [tpc EXCEPT ![g] = "GetOnionAddress_deref"]
    /\ UNCHANGED <<torInstance, onionAddress, heap, instances, hist>>
    /\ UNCHANGED <<procVars, configVars, exampleVars, buildVars>>

\* GetOnionAddress: return *addr
GetOnionAddress_deref(g) ==
    /\ tpc[g] = "GetOnionAddress_deref"
    /\ tret' = [tret EXCEPT ![g] = Result(0, NilErr, Deref(heap, tloc[g].addr))]
    /\ tpc' = [tpc EXCEPT ![g] = "idle"]
    /\ UNCHANGED <<torInstance, onionAddress, heap, instances, top, tloc,
                   tcalls, hist>>
    /\ UNCHANGED <<procVars, configVars, exampleVars, buildVars>>

EmbedNext ==
    \/ \E g \in Goroutines : StartTor(g)
    \/ \E g \in Goroutines : StartTorWithBootstrap(g)
    \/ \E g \in Goroutines : QuickStart(g)
    \/ \E g \in Goroutines : StartTor_store(g)
    \/ \E g \in Goroutines : Bootstrap_enable(g)
    \/ \E g \in Goroutines : Bootstrap_close(g)
    \/ \E g \in Goroutines : GetTorInstance(g)
    \/ \E g \in Goroutines : StopTor_load(g)
    \/ \E g \in Goroutines : StopTor_close(g)
    \/ \E g \in Goroutines : StopTor_store(g)
    \/ \E g \in Goroutines : SetOnionAddress(g)
    \/ \E g \in Goroutines : GetOnionAddress_load(g)
    \/ \E g \in Goroutines : GetOnionAddress_deref(g)

----------------------------------------------------------------------------
(* examples/basic/main.go: the main goroutine, the signal-handler goroutine *)
(* and the signals the program is sent.  The calls into package embed are   *)
(* the actions above: QuickStart is call 1, the handler's StopTor call 2    *)
(* and the StopTor of main, which waits for the handler's cancel(), call 3  *)

MaxSignals == 2      \* SIGINT/SIGTERM sent to the program

MainCall == 1
HandlerCall == 2
CleanupCall == 3

\* main: where the main goroutine is; handler: where the goroutine of line 33
\* is; ctx: the context of line 20; sigChan: the values buffered in sigChan;
\* sent: the signals sent so far; received: the handler has received one;
\* exit: "running", or how the program ended
ExampleStart ==
    example = [main |-> "QuickStart", handler |-> "none", ctx |-> "live",
               sigChan |-> 0, sent |-> 0, received |-> FALSE, exit |-> "running"]

Running == example.exit = "running"

\* Call k into package embed has returned
CallReturned(k, name) == top[k] = name /\ tpc[k] = "idle"

\* t, err := embed.QuickStart(ctx): the steps of the call
Main_QuickStart ==
    /\ Running
    /\ example.main = "QuickStart"
    /\ \/ QuickStart(MainCall)
       \/ StartTor_store(MainCall)
       \/ Bootstrap_enable(MainCall)
       \/ Bootstrap_close(MainCall)

\* if err != nil { log.Fatalf(...) }
Main_checkErr ==
    /\ Running
    /\ example.main = "QuickStart"
    /\ CallReturned(MainCall, "QuickStart")
    /\ example' = IF tret[MainCall].err.err
                  THEN [example EXCEPT !.exit = "log.Fatalf"]
                  ELSE [example EXCEPT !.main = "Notify"]
    /\ UNCHANGED <<procVars, embedVars, configVars, buildVars>>

\* sigChan := make(chan os.Signal, 1); signal.Notify(sigChan, ...); go func()
Main_Notify ==
    /\ Running
    /\ example.main = "Notify"
    /\ example' = [example EXCEPT !.main = "GetInfo", !.handler = "recv"]
    /\ UNCHANGED <<procVars, embedVars, configVars, buildVars>>

\* t.Control.GetInfo(...) and the printing up to "Press Ctrl+C to exit..."
Main_GetInfo ==
    /\ Running
    /\ example.main = "GetInfo"
    /\ example' = [example EXCEPT !.main = "ctx.Done"]
    /\ UNCHANGED <<procVars, embedVars, configVars, buildVars>>

\* <-ctx.Done()
Main_ctxDone ==
    /\ Running
    /\ example.main = "ctx.Done"
    /\ example.ctx = "cancelled"
    /\ example' = [example EXCEPT !.main = "StopTor"]
    /\ UNCHANGED <<procVars, embedVars, configVars, buildVars>>

\* if err := embed.StopTor(); ...: the steps of the call
Main_StopTor ==
    /\ Running
    /\ example.main = "StopTor"
    /\ \/ StopTor_load(CleanupCall)
       \/ StopTor_close(CleanupCall)
       \/ StopTor_store(CleanupCall)

\* main returns: the deferred cancel() runs and the program ends
Main_return ==
    /\ Running
    /\ example.main = "StopTor"
    /\ CallReturned(CleanupCall, "StopTor")
    /\ example' = [example EXCEPT !.ctx = "cancelled", !.exit = "return"]
    /\ UNCHANGED <<procVars, embedVars, configVars, buildVars>>

\* A SIGINT or SIGTERM is sent.  Before signal.Notify it ends the program;
\* afterwards it is put in sigChan unless the buffer is full
Signal ==
    /\ Running
    /\ example.sent < MaxSignals
    /\ example' = IF example.handler = "none"
                  THEN [example EXCEPT !.sent = @ + 1, !.exit = "signal"]
                  ELSE [example EXCEPT !.sent = @ + 1, !.sigChan = 1]
    /\ UNCHANGED <<procVars, embedVars, configVars, buildVars>>

\* sig := <-sigChan
Handler_recv ==
    /\ Running
    /\ example.handler = "recv"
    /\ example.sigChan = 1
    /\ example' = [example EXCEPT !.sigChan = 0, !.received = TRUE,
                                  !.handler = "StopTor"]
    /\ UNCHANGED <<procVars, embedVars, configVars, buildVars>>

\* if err := embed.StopTor(); ...: the steps of the call
Handler_StopTor ==
    /\ Running
    /\ example.handler = "StopTor"
    /\ \/ StopTor_load(HandlerCall)
       \/ StopTor_close(HandlerCall)
       \/ StopTor_store(HandlerCall)

\* cancel(), whatever StopTor returned
Handler_cancel ==
    /\ Running
    /\ example.handler = "StopTor"
    /\ CallReturned(HandlerCall, "StopTor")
    /\ example' = [example EXCEPT !.ctx = "cancelled", !.handler = "os.Exit"]
    /\ UNCHANGED <<procVars, embedVars, configVars, buildVars>>

\* os.Exit(0)
Handler_exit ==
    /\ Running
    /\ example.handler = "os.Exit"
    /\ example' = [example EXCEPT !.exit = "os.Exit"]
    /\ UNCHANGED <<procVars, embedVars, configVars, buildVars>>

ExampleNext ==
    \/ Main_QuickStart
    \/ Main_checkErr
    \/ Main_Notify
    \/ Main_GetInfo
    \/ Main_ctxDone
    \/ Main_StopTor
    \/ Main_return
    \/ Signal
    \/ Handler_recv
    \/ Handler_StopTor
    \/ Handler_cancel
    \/ Handler_exit

----------------------------------------------------------------------------
(* build-tor-static.sh, run alone or by `make build`, and `make check`.    *)
(* A path is the sequence of its components; an unset or empty variable is *)
(* "" (a string) or <<>> (a path), which ${VAR:-default} treats alike       *)

Hosts == {"x86_64", "aarch64"}                         \* uname -m
ArchValues == {"amd64", "x86_64", "arm64", "aarch64", "mips"}

\* The command lines of the script
OptLists == {<<>>, <<"--help">>, <<"--bogus">>, <<"--arch">>}
                \cup {<<"--arch", a>> : a \in ArchValues}

Home == <<"home", "user">>
Pwd == <<"home", "user", "tor-static-builder">>
UserBuildDir == <<"tmp", "my-tor-build">>
UserOutputDir == <<"path", "to", "output">>

NotExited == 0 - 1

\* What the caller of make or of the script chooses, and the machine it
\* runs on
BuildInputs ==
    {i \in [via : {"make", "script"}, HOST_ARCH : Hosts,
            envARCH : ArchValues \cup {""}, opts : OptLists,
            envBUILD_DIR : {<<>>, UserBuildDir},
            envOUTPUT_DIR : {<<>>, UserOutputDir},
            docker : BOOLEAN, crossTools : BOOLEAN] :
        i.via = "make" => i.opts = <<>>}

\* A run before its first step.  pc: the step the run is at; ARCH,
\* TARGET_ARCH, BUILD_DIR, OUTPUT_DIR: the script's variables; cross: the
\* cross-compiler was set up; fs: the paths created under the build and
\* output directories; built: the artifacts in the build tree; net: a clone
\* or download was attempted; steps: a build step was run; warned: log_warn
\* was called; exit: the script's exit status; success: "Build successful!"
\* was printed; makeOUTPUT_DIR: make's OUTPUT_DIR; check: how `make check`
\* ended
BuildRun(i) ==
    [in |-> i, pc |-> IF i.via = "make" THEN "make" ELSE "parse",
     envBUILD_DIR |-> i.envBUILD_DIR, envOUTPUT_DIR |-> i.envOUTPUT_DIR,
     ARCH |-> "", TARGET_ARCH |-> "", BUILD_DIR |-> <<>>, OUTPUT_DIR |-> <<>>,
     cross |-> FALSE, fs |-> {}, built |-> {}, net |-> FALSE, steps |-> FALSE,
     warned |-> FALSE, exit |-> NotExited, success |-> FALSE,
     makeOUTPUT_DIR |-> <<>>, check |-> "none"]

BuildRuns == {BuildRun(i) : i \in BuildInputs}

\* The script exits with the given status; under make a failed recipe line
\* ends the build
Exit(b, status) == [b EXCEPT !.exit = status, !.pc = "exited"]

\* Makefile, build-local: BUILD_DIR ?= $(HOME)/tor-build, OUTPUT_DIR ?=
\* $(PWD)/output, exported to ./build-tor-static.sh
Make_buildLocal ==
    /\ build.pc = "make"
    /\ LET bd == IF build.envBUILD_DIR = <<>> THEN Home \o <<"tor-build">>
                 ELSE build.envBUILD_DIR
           od == IF build.envOUTPUT_DIR = <<>> THEN Pwd \o <<"output">>
                 ELSE build.envOUTPUT_DIR
       IN  build' = [build EXCEPT !.envBUILD_DIR = bd, !.envOUTPUT_DIR = od,
                                  !.makeOUTPUT_DIR = od, !.pc = "parse"]
    /\ UNCHANGED <<procVars, embedVars, configVars, exampleVars>>

\* The while loop over the command line: the ARCH it leaves and, if the
\* script exits in the loop, the status
RECURSIVE ParseArgs(_, _)
ParseArgs(o, arch) ==
    IF o = <<>> THEN [ARCH |-> arch, exit |-> NotExited]
    ELSE IF o[1] = "--arch"
         THEN IF Len(o) >= 2 THEN ParseArgs(SubSeq(o, 3, Len(o)), o[2])
              ELSE [ARCH |-> "", exit |-> 1]
    ELSE IF o[1] = "--help" THEN [ARCH |-> arch, exit |-> 0]
    ELSE [ARCH |-> arch, exit |-> 1]

\* ARCH="${ARCH:-amd64}" and the option loop
Script_parse ==
    /\ build.pc = "parse"
    /\ LET r == ParseArgs(build.in.opts,
                    IF build.in.envARCH = "" THEN "amd64" ELSE build.in.envARCH)
       IN  build' = IF r.exit # NotExited
                    THEN Exit([build EXCEPT !.ARCH = r.ARCH], r.exit)
                    ELSE [build EXCEPT !.ARCH = r.ARCH, !.pc = "validate"]
    /\ UNCHANGED <<procVars, embedVars, configVars, exampleVars>>

\* A case statement that also takes mips
TargetArch_Mips(arch) ==
    IF arch \in {"amd64", "x86_64"} THEN "x86_64"
    ELSE IF arch \in {"arm64", "aarch64"} THEN "aarch64"
    ELSE IF arch = "mips" THEN "mips"
    ELSE ""

\* case $ARCH in ... : the target, "" for an unsupported architecture
TargetArch(arch) ==
    IF arch \in {"amd64", "x86_64"} THEN "x86_64"
    ELSE IF arch \in {"arm64", "aarch64"} THEN "aarch64"
    ELSE ""

\* Validate architecture
Script_validate ==
    /\ build.pc = "validate"
    /\ build' = IF TargetArch(build.ARCH) = "" THEN Exit(build, 1)
                ELSE [build EXCEPT !.TARGET_ARCH = TargetArch(build.ARCH),
                                   !.pc = "cross"]
    /\ UNCHANGED <<procVars, embedVars, configVars, exampleVars>>

\* Setup cross-compilation if host != target
Script_cross ==
    /\ build.pc = "cross"
    /\ build' =
         IF build.in.HOST_ARCH # build.TARGET_ARCH /\ build.in.HOST_ARCH # build.ARCH
         THEN IF build.in.crossTools
              THEN [build EXCEPT !.cross = TRUE, !.pc = "dirs"]
              ELSE Exit(build, 1)
         ELSE [build EXCEPT !.pc = "dirs"]
    /\ UNCHANGED <<procVars, embedVars, configVars, exampleVars>>

\* BUILD_DIR="$BUILD_DIR/$ARCH"
WithArch(dir, arch) == dir \o <<arch>>

\* Configuration: the defaults, in Docker or on the host, and the
\* architecture appended
Script_dirs ==
    /\ build.pc = "dirs"
    /\ LET bd == IF build.envBUILD_DIR # <<>> THEN build.envBUILD_DIR
                 ELSE IF build.in.docker THEN <<"build">>
                 ELSE Home \o <<"tor-build">>
           od == IF build.envOUTPUT_DIR # <<>> THEN build.envOUTPUT_DIR
                 ELSE IF build.in.docker THEN <<"output">>
                 ELSE Pwd \o <<"output">>
       IN  build' = [build EXCEPT !.BUILD_DIR = WithArch(bd, build.ARCH),
                                  !.OUTPUT_DIR = WithArch(od, build.ARCH),
                                  !.pc = "mkdir"]
    /\ UNCHANGED <<procVars, embedVars, configVars, exampleVars>>

\* Create directories: the four mkdir -p, the first n of them succeeding
Script_mkdir ==
    /\ build.pc = "mkdir"
    /\ \E n \in 0..4 :
        LET dirs == <<build.BUILD_DIR, build.OUTPUT_DIR,
                      build.OUTPUT_DIR \o <<"lib">>,
                      build.OUTPUT_DIR \o <<"include">>>>
            made == [build EXCEPT !.fs = @ \cup {dirs[k] : k \in 1..n}]
        IN  build' = IF n < 4 THEN Exit(made, 1)
                     ELSE [made EXCEPT !.pc = "clone"]
    /\ UNCHANGED <<procVars, embedVars, configVars, exampleVars>>

\* A build step under set -e: it fails and the script exits, or it succeeds
\* and leaves one of the given sets of artifacts in the build tree
BuildStep(from, to, produced) ==
    /\ build.pc = from
    /\ \E ok \in BOOLEAN :
        IF ok
        THEN \E made \in produced :
                build' = [build EXCEPT !.built = @ \cup made, !.steps = TRUE,
                                       !.pc = to]
        ELSE build' = Exit([build EXCEPT !.steps = TRUE], 1)
    /\ UNCHANGED <<procVars, embedVars, configVars, exampleVars>>

\* Steps 1 and 2: git clone, git submodule update; the Tor sources hold
\* src/feature/api/tor_api.h
Script_clone ==
    /\ build.pc = "clone"
    /\ \E ok \in BOOLEAN :
        IF ok
        THEN build' = [build EXCEPT !.net = TRUE, !.built = @ \cup {"tor_api.h"},
                                    !.pc = "libcap"]
        ELSE build' = Exit([build EXCEPT !.net = TRUE], 1)
    /\ UNCHANGED <<procVars, embedVars, configVars, exampleVars>>

\* Step 3: libcap; make install puts libcap.a in dist/lib64, in dist/lib or
\* elsewhere
Script_libcap ==
    BuildStep("libcap", "openssl", {{}, {"lib64/libcap.a"}, {"lib/libcap.a"}})

\* Step 4: OpenSSL; make install_sw puts the libraries in dist/lib or, as
\* OpenSSL 3 does on x86_64, in dist/lib64
Script_openssl ==
    BuildStep("openssl", "libevent", {{}, {"libssl.a", "libcrypto.a"}})

Script_libevent == BuildStep("libevent", "zlib", {{"libevent.a"}})

Script_zlib == BuildStep("zlib", "tor", {{"libz.a"}})

\* Step 5: configure and make Tor, combine the archives into libtor.a
Script_tor == BuildStep("tor", "copy", {{"libtor.a"}})

\* The libraries copied with a plain cp, in the order of the script
CopyOrder == <<"libtor.a", "libssl.a", "libcrypto.a", "libevent.a", "libz.a">>

\* Step 6: copy output files.  A plain cp of a missing file ends the script;
\* the cp of libcap.a falls back from lib64 to lib and then to log_warn
Script_copy ==
    /\ build.pc = "copy"
    /\ LET out(name) == build.OUTPUT_DIR \o name
           missing == {k \in 1..Len(CopyOrder) : CopyOrder[k] \notin build.built}
           n == IF missing = {} THEN Len(CopyOrder)
                ELSE (CHOOSE k \in missing : \A m \in missing : k <= m) - 1
           libs == {out(<<"lib", CopyOrder[k]>>) : k \in 1..n}
           hasCap == \/ "lib64/libcap.a" \in build.built
                     \/ "lib/libcap.a" \in build.built
           cap == IF hasCap THEN {out(<<"lib", "libcap.a">>)} ELSE {}
           dirs == {out(<<"lib">>), out(<<"include">>), out(<<"go">>)}
       IN  build' =
             IF missing # {}
             THEN Exit([build EXCEPT !.fs = @ \cup dirs \cup libs], 1)
             ELSE IF "tor_api.h" \notin build.built
             THEN Exit([build EXCEPT !.fs = @ \cup dirs \cup libs \cup cap,
                                     !.warned = ~hasCap], 1)
             ELSE [build EXCEPT
                     !.fs = @ \cup dirs \cup libs \cup cap
                              \cup {out(<<"include", "tor_api.h">>)},
                     !.warned = ~hasCap, !.pc = "info"]
    /\ UNCHANGED <<procVars, embedVars, configVars, exampleVars>>

\* cat > "$OUTPUT_DIR/build-info.txt"
Script_info ==
    /\ build.pc = "info"
    /\ \E ok \in BOOLEAN :
        build' = IF ok
                 THEN [build EXCEPT !.fs = @ \cup {build.OUTPUT_DIR \o <<"build-info.txt">>},
                                    !.pc = "report"]
                 ELSE Exit(build, 1)
    /\ UNCHANGED <<procVars, embedVars, configVars, exampleVars>>

\* "Build successful!": the script ends with status 0; under make the
\* recipe goes on to $(MAKE) check
Script_report ==
    /\ build.pc = "report"
    /\ build' = [build EXCEPT !.success = TRUE, !.exit = 0,
                              !.pc = IF build.in.via = "make" THEN "check"
                                     ELSE "exited"]
    /\ UNCHANGED <<procVars, embedVars, configVars, exampleVars>>

\* uname -m | sed 's/x86_64/amd64/' | sed 's/aarch64/arm64/'
CheckArch(host) ==
    IF host = "x86_64" THEN "amd64"
    ELSE IF host = "aarch64" THEN "arm64"
    ELSE host

\* CHECK_DIR="$(OUTPUT_DIR)/$$ARCH"
CheckDir(b) == b.makeOUTPUT_DIR \o <<CheckArch(b.in.HOST_ARCH)>>

\* Makefile, check: libtor.a and tor_api.h must be in CHECK_DIR
Make_check ==
    /\ build.pc = "check"
    /\ LET found == /\ CheckDir(build) \o <<"lib", "libtor.a">> \in build.fs
                    /\ CheckDir(build) \o <<"include", "tor_api.h">> \in build.fs
       IN  build' = [build EXCEPT !.check = IF found THEN "pass" ELSE "fail",
                                  !.pc = "exited"]
    /\ UNCHANGED <<procVars, embedVars, configVars, exampleVars>>

BuildNext ==
    \/ Make_buildLocal
    \/ Script_parse
    \/ Script_validate
    \/ Script_cross
    \/ Script_dirs
    \/ Script_mkdir
    \/ Script_clone
    \/ Script_libcap
    \/ Script_openssl
    \/ Script_libevent
    \/ Script_zlib
    \/ Script_tor
    \/ Script_copy
    \/ Script_info
    \/ Script_report
    \/ Make_check

\* No run of the script
BuildIdle == build = BuildRun([via |-> "script", HOST_ARCH |-> "x86_64",
                               envARCH |-> "", opts |-> <<>>,
                               envBUILD_DIR |-> <<>>, envOUTPUT_DIR |-> <<>>,
                               docker |-> FALSE, crossTools |-> FALSE])

BuildInit == build \in BuildRuns

----------------------------------------------------------------------------
(* Specifications: one per part of the code; the other parts stay as built *)

ProcIdle == NewProcess("nil", <<>>) /\ ProcFresh

ConfigIdle ==
    /\ config = DefaultConfig
    /\ extraArgs = NotCalled

InitProcess == ProcInit /\ EmbedInit /\ ConfigIdle /\ ExampleStart /\ BuildIdle
SpecProcess == InitProcess /\ [][ProcNext]_vars

\* Start and its goroutine on a process made with every argument list of
\* ArgLists
StartNext ==
    \/ \E c \in Callers : Start_guard(c)
    \/ \E c \in Callers : Start_conf(c)
    \/ \E c \in Callers : Start_go(c)
    \/ \E t \in 1..Len(tasks) : Task_runMain(t)
    \/ \E t \in 1..Len(tasks) : Task_mainReturns(t)
    \/ \E t \in 1..Len(tasks) : Task_send(t)
    \/ \E t \in 1..Len(tasks) : Task_deferred(t)

InitProcessArgs == ProcInitArgs /\ EmbedInit /\ ConfigIdle /\ ExampleStart /\ BuildIdle
SpecProcessArgs == InitProcessArgs /\ [][StartNext]_vars

\* The process as a first Start that returned nil leaves it: the command
\* line set, the done-channel made, the goroutine spawned
ProcStarted ==
    /\ ctx \in {"nil", "live"}
    /\ args = <<StrSocksPort, StrZero>>
    /\ mainConf = [freed |-> FALSE, frees |-> 0, argc |-> Len(Argv(args)),
                   argv |-> 1, usedAfterFree |-> FALSE]
    /\ doneCh = 1
    /\ chans = <<<<>>>>
    /\ charArrays = <<[argv |-> CharArrayOf(Argv(args)), frees |-> 0]>>
    /\ tasks = <<[at |-> "spawned", charArray |-> 1, code |-> 0]>>
    /\ crashed = FALSE
    /\ pc = [c \in Callers |-> "idle"]
    /\ op = [c \in Callers |-> "none"]
    /\ ret = [c \in Callers |-> NoRet]
    /\ sel = [c \in Callers |-> 0]
    /\ arr = [c \in Callers |-> 0]
    /\ ncalls = 0
    /\ startedOK = TRUE

\* The goroutine of a started process and the Wait calls on it
WaitNext ==
    \/ \E t \in 1..Len(tasks) : Task_runMain(t)
    \/ \E t \in 1..Len(tasks) : Task_mainReturns(t)
    \/ \E t \in 1..Len(tasks) : Task_send(t)
    \/ \E t \in 1..Len(tasks) : Task_deferred(t)
    \/ \E c \in Callers : Wait_guard(c)
    \/ \E c \in Callers : Wait_ctxDone(c)
    \/ \E c \in Callers : Wait_recv(c)
    \/ CancelCtx

\* The Go scheduler runs every goroutine that can take a step: the
\* background goroutine once tor_run_main has returned, and a Wait whose
\* select has a ready case.  When tor_run_main returns and whether the
\* context is cancelled is up to Tor and to the caller.
WaitFairness ==
    /\ WF_vars(\E t \in 1..Len(tasks) : Task_send(t))
    /\ WF_vars(\E t \in 1..Len(tasks) : Task_deferred(t))
    /\ \A c \in Callers : WF_vars(Wait_recv(c))
    /\ \A c \in Callers : WF_vars(Wait_ctxDone(c))

InitWait == ProcStarted /\ EmbedInit /\ ConfigIdle /\ ExampleStart /\ BuildIdle
SpecWait == InitWait /\ [][WaitNext]_vars
SpecWaitFair == SpecWait /\ WaitFairness

InitEmbed == ProcIdle /\ EmbedInit /\ ConfigIdle /\ ExampleStart /\ BuildIdle
SpecEmbed == InitEmbed /\ [][EmbedNext]_vars

InitConfig == ProcIdle /\ EmbedInit /\ ConfigInit /\ ExampleStart /\ BuildIdle
SpecConfig == InitConfig /\ [][ConfigNext]_vars

InitExample == ProcIdle /\ EmbedInit /\ ConfigIdle /\ ExampleStart /\ BuildIdle
SpecExample == InitExample /\ [][ExampleNext]_vars

InitBuild == ProcIdle /\ EmbedInit /\ ConfigIdle /\ ExampleStart /\ BuildInit
SpecBuild == InitBuild /\ [][BuildNext]_vars

----------------------------------------------------------------------------
(* Properties of embeddedProcess (SpecProcess) *)

\* C1: once a Start has returned nil, every Start call begun afterwards
\* returns "already started" in its first statement, spawns no goroutine (so
\* tor_run_main is not entered again) and leaves doneCh, mainConf and args as
\* they were.
C1_DoubleStartGuard ==
    [][\A c \in Callers :
        (startedOK /\ Start_guard(c)) =>
            /\ ret'[c] = Errorf("already started")
            /\ pc'[c] = "idle"
            /\ tasks' = tasks
            /\ UNCHANGED <<doneCh, mainConf, args>>]_vars

\* A Start returned "already started" while exactly one goroutine was ever
\* spawned
C1_Witness ==
    \E c \in Callers :
        /\ startedOK
        /\ op[c] = "Start"
        /\ ret[c] = Errorf("already started")
        /\ Len(tasks) = 1

\* The goroutine's tor_run_main has returned
MainReturned(t) == tasks[t].at \in {"send", "deferred", "done"}

\* Caller c is back from a Wait that received an exit code
WaitGotCode(c) == op[c] = "Wait" /\ pc[c] = "idle" /\ "from" \in DOMAIN ret[c]

\* C5: with a context that is not cancelled, a Wait on a started process
\* leaves its select only when a tor_run_main has returned; the value it
\* returns is nil exactly if the exit code it received from that run is 0,
\* and otherwise an error whose text carries that exit code in decimal.
C5_WaitReportsExitStatus ==
    /\ [](\A c \in Callers :
            WaitGotCode(c) =>
                LET code == tasks[ret[c].from].code
                IN  /\ MainReturned(ret[c].from)
                    /\ (ret[c].err = FALSE) <=> (code = 0)
                    /\ code = 0 => ret[c] = NilErr @@ [from |-> ret[c].from]
                    /\ code # 0 =>
                        /\ ret[c].msg = "command completed with error exit code"
                        /\ IsDecimalOf(ret[c].arg, code))
    /\ [][\A c \in Callers :
            (pc[c] = "Wait_select" /\ pc'[c] # "Wait_select" /\ ~CtxDone(ctx)) =>
                /\ \E t \in 1..Len(tasks) : MainReturned(t)
                /\ "from" \in DOMAIN ret'[c]]_vars

\* A Wait under a context never cancelled returned an error for a non-zero
\* exit code
C5_Witness ==
    \E c \in Callers :
        /\ WaitGotCode(c)
        /\ ~CtxDone(ctx)
        /\ ret[c].err
        /\ tasks[ret[c].from].code # 0

\* C6: when no Start has returned nil, Wait returns "not started" in its first
\* statement, without entering the select and without changing the process.
C6_WaitNotStarted ==
    [][\A c \in Callers :
        (~startedOK /\ Wait_guard(c)) =>
            /\ ret'[c] = Errorf("not started")
            /\ pc'[c] = "idle"
            /\ UNCHANGED <<ctx, mainConf, args, doneCh, chans, charArrays, tasks>>]_vars

\* A Wait returned "not started" after a Start had failed
C6_Witness ==
    \E c \in Callers :
        /\ ~startedOK
        /\ op[c] = "Wait"
        /\ ret[c] = Errorf("not started")
        /\ mainConf.freed

----------------------------------------------------------------------------
(* Properties of package embed (SpecEmbed) *)

\* Goroutine g takes a step of StopTor
StopTorStep(g) == StopTor_load(g) \/ StopTor_close(g) \/ StopTor_store(g)

\* Goroutine g returns nil from StopTor in this step
StopTorSucceeds(g) ==
    StopTorStep(g) /\ tpc'[g] = "idle" /\ tret'[g].err = NilErr

\* C2: a StopTor that finds no stored instance returns nil and calls no
\* Close; whenever a StopTor returns nil the stored instance is nil (so
\* GetTorInstance returns nil and a further StopTor is such a no-op).
C2_DoubleStopGuard ==
    [][\A g \in Goroutines :
        /\ (torInstance = 0 /\ StopTor_load(g)) =>
                /\ StopTorSucceeds(g)
                /\ instances' = instances
                /\ torInstance' = 0
        /\ StopTorSucceeds(g) => torInstance' = 0]_vars

\* Two StopTor calls returned nil, the stored instance is nil, and the one
\* instance ever started was closed once
C2_Witness ==
    /\ torInstance = 0
    /\ Len(instances) = 1
    /\ instances[1].closeCalls = 1
    /\ \E g, h \in Goroutines :
        /\ g # h
        /\ \A k \in {g, h} :
            top[k] = "StopTor" /\ tpc[k] = "idle" /\ tret[k] = Result(0, NilErr, <<>>)

\* Goroutine g takes a step of StartTor, entered directly or through
\* StartTorWithBootstrap or QuickStart
StartTorStep(g) ==
    StartTor(g) \/ StartTorWithBootstrap(g) \/ QuickStart(g) \/ StartTor_store(g)

\* In this step StartTor returns an instance and no error, to the caller of
\* the package or to StartTorWithBootstrap; Returned(g) is that instance
StartTorSucceeds(g) ==
    /\ StartTorStep(g)
    /\ \/ tpc'[g] = "idle" /\ tret'[g].err = NilErr
       \/ tpc'[g] = "Bootstrap_enable"

Returned(g) == IF tpc'[g] = "idle" THEN tret'[g].t ELSE tloc'[g].t

\* What C3 says in every reading: a successful StartTor leaves its own
\* non-nil instance stored; GetTorInstance returns what is stored and changes
\* nothing; before any StartTor the stored instance is nil
C3_Common ==
    /\ [](~hist.started => torInstance = 0)
    /\ [][\A g \in Goroutines :
            /\ StartTorSucceeds(g) =>
                    torInstance' = Returned(g) /\ Returned(g) # 0
            /\ GetTorInstance(g) =>
                    /\ tret'[g].t = torInstance
                    /\ UNCHANGED <<torInstance, onionAddress, heap, instances>>]_vars

C4_StoredInstanceNotClosed ==
    torInstance # 0 => instances[torInstance].closeCalls = 0

\* The value GetOnionAddress returns when called in this state
OnionValue == Deref(heap, onionAddress)

\* C7: the onion address is an atomic register, "" at first: its value is the
\* argument of the latest SetOnionAddress; every GetOnionAddress returns the
\* value the register had at its Load, whatever is set before it returns; once
\* any Set has happened the value is the argument of one of the Sets.
C7_OnionAddressRegister ==
    /\ OnionValue = hist.lastSet
    /\ hist.sets = {} => OnionValue = <<>>
    /\ hist.sets # {} => OnionValue \in hist.sets
    /\ \A g \in Goroutines :
        top[g] = "GetOnionAddress" /\ tpc[g] = "idle" =>
            /\ tret[g].val = tloc[g].seen
            /\ tret[g].val \in hist.sets \cup {<<>>}

\* After two different addresses were set, a GetOnionAddress returned the
\* second one
C7_Witness ==
    \E g \in Goroutines :
        /\ top[g] = "GetOnionAddress" /\ tpc[g] = "idle"
        /\ Cardinality(hist.sets) = 2
        /\ tret[g].val # <<>>
        /\ tret[g].val = hist.lastSet

----------------------------------------------------------------------------
(* Properties of Config.BuildExtraArgs (SpecConfig) *)

\* flag is at some position of a, immediately followed by val
HasPair(a, flag, val) == \E i \in 1..(Len(a) - 1) : a[i] = flag /\ a[i + 1] = val

\* flag is at some position of a, immediately followed by the decimal numeral
\* of n
HasDecimalPair(a, flag, n) ==
    \E i \in 1..(Len(a) - 1) : a[i] = flag /\ IsDecimalOf(a[i + 1], n)

\* C8: with SocksPort s and ControlPort c both non-zero, the result holds
\* "--SocksPort" followed by the decimal numeral of s, "--ControlPort"
\* followed by the decimal numeral of c and, when ClientOnly is set,
\* "--ClientOnly" followed by "1".
C8_NonZeroPorts ==
    (extraArgs.called /\ config.SocksPort # 0 /\ config.ControlPort # 0) =>
        /\ HasDecimalPair(extraArgs.value, StrSocksPort, config.SocksPort)
        /\ HasDecimalPair(extraArgs.value, StrControlPort, config.ControlPort)
        /\ config.ClientOnly => HasPair(extraArgs.value, StrClientOnly, StrOne)

\* BuildExtraArgs of {SocksPort: 9050, ControlPort: 9051, ClientOnly: true}
C8_Witness ==
    /\ extraArgs.called
    /\ config.SocksPort = 9050 /\ config.ControlPort = 9051 /\ config.ClientOnly
    /\ extraArgs.value = <<StrSocksPort, <<"9", "0", "5", "0">>,
                           StrControlPort, <<"9", "0", "5", "1">>,
                           StrClientOnly, StrOne>>

\* C9: with SocksPort 0 and ControlPort 0 the result holds "--SocksPort"
\* followed by "0" and "--ControlPort" followed by "0".
C9_DisabledPorts ==
    (extraArgs.called /\ config.SocksPort = 0 /\ config.ControlPort = 0) =>
        /\ HasPair(extraArgs.value, StrSocksPort, StrZero)
        /\ HasPair(extraArgs.value, StrControlPort, StrZero)

IsFlag(e) == Len(e) >= 2 /\ e[1] = "-" /\ e[2] = "-"

\* The flag positions of a (Go indices 0, 2, 4, ...) that hold flag
FlagPositions(a, flag) == {i \in 1..Len(a) : i % 2 = 1 /\ a[i] = flag}

\* C11: for every Config, negative ports and ports above 65535 included, the
\* result is non-empty and of even length, every element at a flag position
\* starts with "--" and is followed by a value, "--SocksPort" and
\* "--ControlPort" are each at exactly one flag position, "--ClientOnly" is at
\* one flag position when ClientOnly is set and at none otherwise; the call
\* leaves the Config as it was.
C11_FlagValuePairs ==
    /\ [](extraArgs.called =>
            LET a == extraArgs.value
            IN  /\ a # <<>>
                /\ Len(a) % 2 = 0
                /\ \A i \in 1..Len(a) : i % 2 = 1 => IsFlag(a[i]) /\ i + 1 <= Len(a)
                /\ Cardinality(FlagPositions(a, StrSocksPort)) = 1
                /\ Cardinality(FlagPositions(a, StrControlPort)) = 1
                /\ Cardinality(FlagPositions(a, StrClientOnly))
                        = IF config.ClientOnly THEN 1 ELSE 0)
    /\ [][Config_BuildExtraArgs => config' = config]_vars

\* BuildExtraArgs of {SocksPort: -1, ControlPort: 70000, ClientOnly: false}
C11_Witness ==
    /\ extraArgs.called
    /\ config.SocksPort = 0 - 1 /\ config.ControlPort = 70000 /\ ~config.ClientOnly
    /\ extraArgs.value = <<StrSocksPort, <<"-", "1">>,
                           StrControlPort, <<"7", "0", "0", "0", "0">>>>

\* C12: the Config DefaultConfig returns has SocksPort 9050, ControlPort
\* 9051, ClientOnly true, a non-empty DataDir and a BootstrapTimeout of 2
\* minutes.
C12_DefaultConfigValues ==
    [][Config_Default =>
        /\ config'.SocksPort = 9050
        /\ config'.ControlPort = 9051
        /\ config'.ClientOnly
        /\ config'.DataDir # <<>>
        /\ config'.BootstrapTimeout = 2]_vars

----------------------------------------------------------------------------
(* Properties of QuickStart (SpecEmbed) *)

\* C13: the Tor process QuickStart starts is given DefaultConfig's DataDir
\* and the arguments DefaultConfig().BuildExtraArgs() returns, and its
\* bootstrap wait is bounded by DefaultConfig's BootstrapTimeout, 3 minutes;
\* a QuickStart that succeeds, with no other call made on the package,
\* returns a non-nil instance, the one stored for GetTorInstance.
C13_QuickStartDefaults ==
    [][\A g \in Goroutines :
        /\ (QuickStart(g) /\ Len(instances') > Len(instances)) =>
                LET started == instances'[Len(instances')]
                IN  /\ started.dataDir = DefaultConfig.DataDir
                    /\ tloc'[g].timeout = DefaultConfig.BootstrapTimeout
                    /\ tloc'[g].timeout = 3
                    /\ started.extraArgs = BuildExtraArgs(DefaultConfig)
        /\ (top[g] = "QuickStart" /\ Bootstrap_enable(g) /\ tpc'[g] = "idle"
                /\ tcalls = 1) =>
                /\ tret'[g].t # 0
                /\ tret'[g].t = torInstance']_vars

----------------------------------------------------------------------------
(* Properties of the basic example (SpecExample) *)

\* C14: once the handler goroutine has received a signal while Tor is
\* running, Close is called on the Tor instance at most once however the
\* handler and the main goroutine interleave (the StopTor of main finds no
\* instance), and exactly once by the time the program has exited.
C14_SingleClose ==
    example.received =>
        /\ Len(instances) = 1
        /\ instances[1].closeCalls <= 1
        /\ ~Running => instances[1].closeCalls = 1

----------------------------------------------------------------------------
(* Properties of the build (SpecBuild) *)

\* C15: under `make build` with ARCH unset, on an x86_64 and on an aarch64
\* host, the script builds for the host's architecture, the directory it
\* writes its outputs to is the directory `make check` inspects, and a
\* script run that reports success is followed by a passing check.
C15_NativeBuildChecked ==
    (build.in.via = "make" /\ build.in.envARCH = "" /\ build.success) =>
        /\ build.TARGET_ARCH = build.in.HOST_ARCH
        /\ build.OUTPUT_DIR = CheckDir(build)
        /\ build.pc = "exited" => build.check = "pass"

\* All of path p but its last component
Parent(p) == SubSeq(p, 1, Len(p) - 1)

\* C16: for every architecture value the script accepts and every
\* user-supplied or default BUILD_DIR and OUTPUT_DIR, the directories the
\* script works in are <BUILD_DIR>/<a> and <OUTPUT_DIR>/<a> for one a in
\* {amd64, arm64}, appended once.
C16_ArchAppended ==
    build.BUILD_DIR # <<>> =>
        /\ \E a \in {"amd64", "arm64"} :
                /\ build.BUILD_DIR = Parent(build.BUILD_DIR) \o <<a>>
                /\ build.OUTPUT_DIR = Parent(build.OUTPUT_DIR) \o <<a>>
        /\ Parent(build.BUILD_DIR) =
                IF build.envBUILD_DIR # <<>> THEN build.envBUILD_DIR
                ELSE IF build.in.docker THEN <<"build">>
                ELSE Home \o <<"tor-build">>
        /\ Parent(build.OUTPUT_DIR) =
                IF build.envOUTPUT_DIR # <<>> THEN build.envOUTPUT_DIR
                ELSE IF build.in.docker THEN <<"output">>
                ELSE Pwd \o <<"output">>

\* The files the output directory holds after a build
Artifacts == {<<"lib", "libtor.a">>, <<"lib", "libssl.a">>,
              <<"lib", "libcrypto.a">>, <<"lib", "libevent.a">>,
              <<"lib", "libz.a">>, <<"lib", "libcap.a">>,
              <<"include", "tor_api.h">>, <<"build-info.txt">>}

\* C17: when the script has printed "Build successful!" and ended with
\* status 0, the output directory holds lib/libtor.a, lib/libssl.a,
\* lib/libcrypto.a, lib/libevent.a, lib/libz.a, lib/libcap.a,
\* include/tor_api.h and build-info.txt.
C17_SuccessMeansArtifacts ==
    (build.success /\ build.exit = 0) =>
        \A f \in Artifacts : build.OUTPUT_DIR \o f \in build.fs

----------------------------------------------------------------------------
(* Further properties of embeddedProcess (SpecProcess) *)

\* The Start calls that have returned nil
StartsReturnedNil == {c \in Callers : op[c] = "Start" /\ pc[c] = "idle" /\ ret[c] = NilErr}

\* C18: however the Start calls of several goroutines on one process
\* interleave, at most one background goroutine is spawned, tor_run_main is
\* entered at most once, and at most one Start returns nil.
C18_ConcurrentStartGuard ==
    /\ Len(tasks) <= 1
    /\ Cardinality({t \in 1..Len(tasks) : tasks[t].at # "spawned"}) <= 1
    /\ Cardinality(StartsReturnedNil) <= 1

\* Caller c leaves the select of Wait in this step
LeavesSelect(c) == pc[c] = "Wait_select" /\ pc'[c] = "idle"

\* C19: a Wait in its select, with the context cancelled and no exit code in
\* the done-channel, returns the context's error; a Wait that returns the
\* context's error takes nothing from the done-channel and leaves the
\* background goroutine as it is; with a nil context no Wait ever returns
\* the context's error.
C19_WaitHonoursContext ==
    /\ [][\A c \in Callers :
            /\ (LeavesSelect(c) /\ CtxDone(ctx) /\ chans[sel[c]] = <<>>) =>
                    ret'[c] = Errorf("context canceled")
            /\ (LeavesSelect(c) /\ ret'[c] = Errorf("context canceled")) =>
                    /\ CtxDone(ctx)
                    /\ UNCHANGED <<chans, tasks, doneCh, mainConf, charArrays>>]_vars
    /\ [](ctx = "nil" =>
            \A c \in Callers : ret[c] # Errorf("context canceled"))

\* A Wait has returned the context's error and tor_run_main is still
\* running, no exit code sent yet
C19_Witness ==
    \E c \in Callers :
        /\ op[c] = "Wait" /\ pc[c] = "idle"
        /\ ret[c] = Errorf("context canceled")
        /\ ctx = "cancelled"
        /\ Len(tasks) = 1 /\ tasks[1].at = "running"
        /\ chans[doneCh] = <<>>

\* Caller c returns from Start with the command line not set
StartFails(c) == Start_conf(c) /\ pc'[c] = "idle"

\* Some Start has returned the command-line error
SomeStartFailed ==
    \E c \in Callers :
        /\ op[c] = "Start" /\ pc[c] = "idle"
        /\ ret[c].msg = "failed to set command line args, code"

\* C20: a Start whose command line is refused returns an error carrying the
\* non-zero code in decimal, frees the configuration and the argument array
\* it made, spawns no goroutine and leaves doneCh nil; a Wait begun after
\* such a Start, no Start having succeeded, returns "not started".
C20_FailedStart ==
    [][\A c \in Callers :
        /\ StartFails(c) =>
                /\ ret'[c].err
                /\ ret'[c].msg = "failed to set command line args, code"
                /\ \E code \in SetCommandLineCodes \ {0} :
                        IsDecimalOf(ret'[c].arg, code)
                /\ mainConf'.freed /\ mainConf'.frees = mainConf.frees + 1
                /\ Len(charArrays') = Len(charArrays) + 1
                /\ charArrays'[Len(charArrays')].frees = 1
                /\ tasks' = tasks
                /\ doneCh' = doneCh
        /\ (SomeStartFailed /\ ~startedOK /\ Wait_guard(c)) =>
                /\ ret'[c] = Errorf("not started")
                /\ pc'[c] = "idle"]_vars

\* A Start failed with code -1, leaving doneCh nil and nothing spawned, and
\* the Wait that followed returned "not started"
C20_Witness ==
    /\ op[1] = "Start" /\ pc[1] = "idle"
    /\ ret[1] = ErrorfCode("failed to set command line args, code", 0 - 1)
    /\ op[2] = "Wait" /\ ret[2] = Errorf("not started")
    /\ doneCh = 0 /\ tasks = <<>>
    /\ mainConf.freed /\ charArrays[1].frees = 1

----------------------------------------------------------------------------
(* Properties of the argument array (SpecProcessArgs) *)

\* C21: for every argument list given to New, the empty one included, the
\* array Start hands to tor_main_configuration_set_command_line has
\* len(args)+1 entries, "tor" first and then the arguments in their order,
\* argc is len(args)+1, and e.args is never changed.
C21_ArgumentMarshaling ==
    /\ [](\A k \in 1..Len(charArrays) :
            LET argv == charArrays[k].argv
            IN  /\ Len(argv) = Len(args) + 1
                /\ argv[1] = StrTor
                /\ \A i \in 1..Len(args) : argv[i + 1] = args[i])
    /\ [](mainConf.argv # 0 =>
            /\ mainConf.argc = Len(args) + 1
            /\ mainConf.argv \in 1..Len(charArrays))
    /\ [][args' = args]_vars

\* Start on New(ctx, "--SocksPort", "0") handed over "tor", "--SocksPort", "0"
C21_Witness ==
    /\ args = <<StrSocksPort, StrZero>>
    /\ Len(charArrays) = 1
    /\ charArrays[1].argv = <<StrTor, StrSocksPort, StrZero>>
    /\ mainConf.argc = 3 /\ mainConf.argv = 1

----------------------------------------------------------------------------
(* Further properties of package embed (SpecEmbed) *)

\* Goroutine g is in StartTorWithBootstrap, called directly or by QuickStart
InBootstrapCall(g) == top[g] \in {"StartTorWithBootstrap", "QuickStart"}

\* C22: in StartTorWithBootstrap, a failed StartTor ends the call with that
\* error and a nil instance, nothing started and EnableNetwork not reached;
\* a failed or timed-out EnableNetwork is followed by Close on the instance
\* just started and by the return of a nil instance with an error wrapping
\* the cause; a non-nil instance is returned only by the step in which
\* EnableNetwork succeeds, and it is the instance StartTor started.
C22_BootstrapErrorHandling ==
    /\ [][\A g \in Goroutines :
            /\ ((StartTorWithBootstrap(g) \/ QuickStart(g)) /\ tpc'[g] = "idle") =>
                    /\ tret'[g].t = 0
                    /\ tret'[g].err.err
                    /\ tret'[g].err.msg = "failed to start embedded Tor"
                    /\ instances' = instances
            /\ (Bootstrap_enable(g) /\ tpc'[g] # "idle") =>
                    tpc'[g] = "Bootstrap_close"
            /\ Bootstrap_close(g) =>
                    /\ instances'[tloc[g].t].closeCalls
                            = instances[tloc[g].t].closeCalls + 1
                    /\ tret'[g].t = 0
                    /\ tret'[g].err.err
                    /\ tret'[g].err.msg = "failed to bootstrap Tor"
                    /\ tret'[g].err.cause = tret[g].err.msg
                    /\ tret'[g].err.cause
                            \in {"error", "context deadline exceeded"}
            /\ (InBootstrapCall(g) /\ tpc[g] # "idle" /\ tpc'[g] = "idle"
                    /\ tret'[g].t # 0) =>
                    /\ Bootstrap_enable(g)
                    /\ tret'[g].err = NilErr
                    /\ tret'[g].t = tloc[g].t]_vars
    /\ [](\A g \in Goroutines :
            (InBootstrapCall(g) /\ tpc[g] = "idle" /\ tret[g].t # 0) =>
                tret[g].err = NilErr)

\* StartTorWithBootstrap returned nil and the wrapped timeout after closing
\* the instance it had started
C22_Witness ==
    \E g \in Goroutines :
        /\ top[g] = "StartTorWithBootstrap" /\ tpc[g] = "idle"
        /\ tret[g].t = 0
        /\ tret[g].err.msg = "failed to bootstrap Tor"
        /\ tret[g].err.cause = "context deadline exceeded"
        /\ instances[tloc[g].t].closeCalls = 1

\* C23: a StartTor whose tor.Start fails returns nil and the wrapped error
\* and leaves the stored instance as it was; a StopTor whose Close fails
\* returns the wrapped error and leaves the stored instance in place; no
\* step of StartTor or StopTor changes the stored onion address.
C23_StateUnchangedOnError ==
    [][\A g \in Goroutines :
        /\ ((StartTor(g) \/ StartTorWithBootstrap(g) \/ QuickStart(g))
                /\ tpc'[g] = "idle") =>
                /\ tret'[g].t = 0
                /\ tret'[g].err.err
                /\ tret'[g].err.msg = "failed to start embedded Tor"
                /\ tret'[g].err.cause = "tor.Start"
                /\ torInstance' = torInstance
                /\ instances' = instances
        /\ (StopTor_close(g) /\ tpc'[g] = "idle") =>
                /\ tret'[g].err.err
                /\ tret'[g].err.msg = "failed to stop Tor"
                /\ tret'[g].err.cause = "Close"
                /\ torInstance' = torInstance
        /\ (StartTorStep(g) \/ StopTorStep(g)) =>
                UNCHANGED <<onionAddress, heap>>]_vars

\* A StopTor returned the wrapped Close error and the instance it had loaded
\* is still stored, with an onion address set before
C23_Witness ==
    \E g \in Goroutines :
        /\ top[g] = "StopTor" /\ tpc[g] = "idle"
        /\ tret[g].err.msg = "failed to stop Tor"
        /\ torInstance # 0 /\ torInstance = tloc[g].t
        /\ onionAddress # 0

----------------------------------------------------------------------------
(* Properties of EmbeddedControlConn (SpecProcess) *)

----------------------------------------------------------------------------
(* Rejected command lines of build-tor-static.sh (SpecBuild) *)

\* An option the script does not know stands where an option is read
UnknownOption(o) ==
    \E k \in 1..Len(o) :
        /\ o[k] \notin {"--arch", "--help"}
        /\ (k = 1 \/ o[k - 1] # "--arch")

\* The run was asked for its usage text
AsksHelp(o) == \E k \in 1..Len(o) : o[k] = "--help"

\* The ARCH the command line and the environment ask for
RequestedArch(i) ==
    ParseArgs(i.opts, IF i.envARCH = "" THEN "amd64" ELSE i.envARCH).ARCH

SupportedArch == {"amd64", "x86_64", "arm64", "aarch64"}

\* The run is one the script has to reject
Rejected(i) ==
    \/ UnknownOption(i.opts)
    \/ ~AsksHelp(i.opts) /\ RequestedArch(i) \notin SupportedArch

----------------------------------------------------------------------------
(* Memory of the native configuration (SpecProcess) *)

\* C26: over any sequence of Start, Wait and EmbeddedControlConn calls on
\* one process the configuration is freed at most once, and it is never
\* passed to the Tor API after it has been freed.
C26_ConfMemorySafety ==
    /\ mainConf.frees <= 1
    /\ ~mainConf.usedAfterFree

----------------------------------------------------------------------------
(* The background goroutine's resources (SpecProcess) *)

\* C27: the send of the background goroutine on the done-channel never
\* finds the buffer full; until tor_run_main has returned and the goroutine
\* has sent, neither its argument array nor the configuration has been
\* freed; once the goroutine has finished, each has been freed exactly once.
C27_TaskCleanup ==
    \A t \in 1..Len(tasks) :
        /\ tasks[t].at = "send" => CanSend(chans[doneCh])
        /\ tasks[t].at \in {"spawned", "running", "send", "deferred"} =>
                /\ charArrays[tasks[t].charArray].frees = 0
                /\ ~mainConf.freed
        /\ tasks[t].at = "done" =>
                /\ charArrays[tasks[t].charArray].frees = 1
                /\ mainConf.frees = 1

----------------------------------------------------------------------------
(* Termination of Wait (SpecWaitFair) *)

\* tor_run_main of the started process has returned
AllMainReturned == \A t \in 1..Len(tasks) : MainReturned(t)

\* C28: once tor_run_main has returned, every Wait that is in its select
\* returns sooner or later, a second Wait and concurrent Waits included,
\* also when the context is never cancelled.
C28_EveryWaitReturns ==
    \A c \in Callers :
        (pc[c] = "Wait_select" /\ AllMainReturned) ~> (pc[c] = "idle")

----------------------------------------------------------------------------
(* Instances that are started and stopped (SpecEmbed) *)

\* The instances a StartTor call has returned and nobody has closed
RunningInstances ==
    {tret[g].t : g \in {h \in Goroutines :
        /\ top[h] = "StartTor" /\ tpc[h] = "idle"
        /\ tret[h].t # 0
        /\ instances[tret[h].t].closeCalls = 0}}

\* C29: when no call is in progress, every instance that StartTor has
\* returned and that has not been closed is the stored one, the one
\* GetTorInstance returns and StopTor stops.
C29_NoOrphanedInstance ==
    (\A g \in Goroutines : tpc[g] = "idle") =>
        \A i \in RunningInstances : torInstance = i

\* Only StartTor and StopTor have been called, and no call has failed
OnlyStartStop ==
    \A g \in Goroutines :
        /\ top[g] \in {"none", "StartTor", "StopTor"}
        /\ ~tret[g].err.err

\* C30: however StopTor and StartTor calls interleave, Close is called at
\* most once on each instance, and a StopTor stores nil only over the
\* instance it has closed (or over nil), never over another instance.
C30_StopTorConcurrent ==
    /\ [](OnlyStartStop =>
            \A i \in 1..Len(instances) : instances[i].closeCalls <= 1)
    /\ [][\A g \in Goroutines :
            StopTor_store(g) => torInstance \in {tloc[g].t, 0}]_vars

====
